---------------------------- MODULE Spec2Model ----------------------------
(***************************************************************************)
(* Model of src/main.rs of sierpinski-triangle: the colour resolver        *)
(* get_color, the two command arms of main (Generate, Image) and the       *)
(* chaos-game plotter make_image.                                          *)
(*                                                                         *)
(* A String is a sequence of characters; a character is a one-character    *)
(* TLA+ string for ASCII, and the name of its code point ("U+00E9",        *)
(* "U+20AC") for a character whose UTF-8 encoding takes 2 or 3 bytes.      *)
(* Rust measures and slices a String in bytes, so byte offsets are kept.   *)
(*                                                                         *)
(* u32 values are kept as integers.  The subtraction height / 2 - 1 can   *)
(* leave the u32 range and is modelled with both outcomes a build can      *)
(* produce: a panic (overflow checks on) or the wrapped value (overflow    *)
(* checks off).  The wrapped value v + 2^32 is held as its 32-bit          *)
(* two's-complement residue v < 0, and unsigned comparison (U32Less)       *)
(* treats a negative residue as >= 2^31.  The sums last + positions[n]     *)
(* reach 2^32 only for dimensions above 2^31, outside the model's bounds.  *)
(***************************************************************************)
EXTENDS Integers, Sequences, FiniteSets, TLC

VARIABLES cmd, pc, col, color, img, positions, last, corner, i, writes, choices

vars == <<cmd, pc, col, color, img, positions, last, corner, i, writes, choices>>

(***************************************************************************)
(* Bounds of the model.                                                    *)
(***************************************************************************)
MaxDim == 11
MaxDots == 4
MaxBody == 6

(***************************************************************************)
(* Option<T>, Rgb<u8>                                                      *)
(***************************************************************************)
None == [some |-> FALSE]
Some(v) == [some |-> TRUE, val |-> v]

Rgb(r, g, b) == <<r, g, b>>
White == Rgb(255, 255, 255)

(***************************************************************************)
(* Strings: byte lengths, char boundaries and byte slices.                 *)
(***************************************************************************)
ByteLen(c) == IF c = "U+00E9" THEN 2 ELSE IF c = "U+20AC" THEN 3 ELSE 1

RECURSIVE StrLen(_)
StrLen(s) == IF s = <<>> THEN 0 ELSE ByteLen(Head(s)) + StrLen(Tail(s))

\* byte offset at which the k-th character of s starts (k = Len(s)+1: the end)
Offset(s, k) == StrLen(SubSeq(s, 1, k - 1))

IsCharBoundary(s, b) == \E k \in 1..(Len(s) + 1) : Offset(s, k) = b

\* &s[a..b]: the characters whose bytes lie in [a, b); both ends on a boundary
Slice(s, a, b) ==
    LET first == CHOOSE k \in 1..(Len(s) + 1) : Offset(s, k) = a
        end   == CHOOSE k \in 1..(Len(s) + 1) : Offset(s, k) = b
    IN  SubSeq(s, first, end - 1)

\* mutant: the string repeated whole ("abc" -> "abcabc")
Doubled_Whole(s) == s \o s

\* for c in s.chars() { for _ in 0..2 { tmp.push(c) } }
RECURSIVE Doubled(_)
Doubled(s) == IF s = <<>> THEN <<>> ELSE <<Head(s), Head(s)>> \o Doubled(Tail(s))

(***************************************************************************)
(* u8::from_str_radix(src, 16)                                             *)
(***************************************************************************)
DecDigits == <<"0", "1", "2", "3", "4", "5", "6", "7", "8", "9">>
LowerDigits == <<"a", "b", "c", "d", "e", "f">>
UpperDigits == <<"A", "B", "C", "D", "E", "F">>

\* char::to_digit(16); -1 stands for None
to_digit(c) ==
    IF \E j \in 1..10 : DecDigits[j] = c
    THEN (CHOOSE j \in 1..10 : DecDigits[j] = c) - 1
    ELSE IF \E j \in 1..6 : LowerDigits[j] = c
    THEN (CHOOSE j \in 1..6 : LowerDigits[j] = c) + 9
    ELSE IF \E j \in 1..6 : UpperDigits[j] = c
    THEN (CHOOSE j \in 1..6 : UpperDigits[j] = c) + 9
    ELSE -1

ParseOk(v) == [ok |-> TRUE, val |-> v, kind |-> "none"]
ParseErr(k) == [ok |-> FALSE, val |-> 0, kind |-> k]

\* the digit loop: result = result * 16 + digit, checked against u8::MAX
RECURSIVE ParseDigits(_, _)
ParseDigits(digits, acc) ==
    IF digits = <<>> THEN ParseOk(acc)
    ELSE IF to_digit(Head(digits)) = -1 THEN ParseErr("InvalidDigit")
    ELSE IF acc * 16 + to_digit(Head(digits)) > 255 THEN ParseErr("PosOverflow")
    ELSE ParseDigits(Tail(digits), acc * 16 + to_digit(Head(digits)))

\* an unsigned type accepts a leading '+' and takes '-' for a digit
from_str_radix(src) ==
    IF src = <<>> THEN ParseErr("Empty")
    ELSE IF Len(src) = 1 /\ Head(src) \in {"+", "-"} THEN ParseErr("InvalidDigit")
    ELSE IF Head(src) = "+" THEN ParseDigits(Tail(src), 0)
    ELSE ParseDigits(src, 0)

(***************************************************************************)
(* get_color(hex: Option<String>) -> Rgb<u8>                               *)
(* The result records the returned triple, the log line emitted, and       *)
(* whether the call panicked instead of returning.                         *)
(***************************************************************************)
Returned(rgb, line) == [panic |-> FALSE, rgb |-> rgb, log |-> line]
Panicked == [panic |-> TRUE, rgb |-> <<>>, log |-> "none"]

StripHash(s) == IF s # <<>> /\ Head(s) = "#" THEN Slice(s, 1, StrLen(s)) ELSE s

Expand(s) == IF StrLen(s) = 3 THEN Doubled(s) ELSE s

\* (0..len).step_by(2).map(|i| from_str_radix(&hex_code[i..i + 2], 16))
\*     .collect::<Result<Vec<u8>, _>>(): lazily, stopping at the first Err
RECURSIVE ParseGroups(_, _, _)
ParseGroups(s, at, acc) ==
    IF at >= StrLen(s) THEN Returned(Rgb(acc[1], acc[2], acc[3]), "none")
    ELSE IF ~(IsCharBoundary(s, at) /\ IsCharBoundary(s, at + 2)) THEN Panicked
    ELSE LET r == from_str_radix(Slice(s, at, at + 2))
         IN  IF r.ok THEN ParseGroups(s, at + 2, Append(acc, r.val))
             ELSE IF r.kind = "InvalidDigit" THEN Returned(White, "warn_illegal_character")
             ELSE Returned(White, "warn_unknown_error")

get_color(hex) ==
    IF ~hex.some THEN Returned(White, "info_no_color")
    ELSE IF hex.val = <<>> THEN Returned(White, "warn_no_color")
    ELSE LET hex_code == StripHash(hex.val)
         IN  IF ~(StrLen(hex_code) = 3 \/ StrLen(hex_code) = 6)
             THEN Returned(White, "warn_length")
             ELSE ParseGroups(Expand(hex_code), 0, <<>>)


(***************************************************************************)
(* u32 arithmetic of make_image                                            *)
(***************************************************************************)
\* a < b on u32, for b in the model's (small, non-negative) range
U32Less(a, b) == a >= 0 /\ a < b

\* a - b on u32: the outcomes a build can produce
SubOutcomes(a, b) ==
    IF a >= b THEN {[panic |-> FALSE, val |-> a - b]}
    ELSE {[panic |-> TRUE, val |-> 0], [panic |-> FALSE, val |-> a - b]}

(***************************************************************************)
(* ImageBuffer<Rgb<u8>, Vec<u8>> and the image crate's operations used     *)
(***************************************************************************)
Coords(w, h) == (0..(w - 1)) \X (0..(h - 1))

\* RgbImage::new(width, height): every channel zero
RgbImage_new(w, h) ==
    [width |-> w, height |-> h, data |-> [p \in Coords(w, h) |-> Rgb(0, 0, 0)]]

InBounds(image, x, y) == U32Less(x, image.width) /\ U32Less(y, image.height)

\* mutant: the coordinates swapped
put_pixel_Transposed(image, x, y, c) == [image EXCEPT !.data[<<y, x>>] = c]

\* put_pixel(x, y, c) on an in-bounds coordinate
put_pixel(image, x, y, c) == [image EXCEPT !.data[<<x, y>>] = c]

get_pixel(image, x, y) == image.data[<<x, y>>]

Clamp(v, lo, hi) == IF v < lo THEN lo ELSE IF v > hi THEN hi ELSE v

\* DynamicImage::grayscale: the luma of an RGB pixel
Luma(px) == (2126 * px[1] + 7152 * px[2] + 722 * px[3]) \div 10000

\* DynamicImage::brighten(value) on a luma channel
Brighten(l, value) == Clamp(l + value, 0, 255)

\* im.grayscale().brighten(-50).to_rgb8() at one pixel
ConvertedPixel(px) == LET l == Brighten(Luma(px), -50) IN Rgb(l, l, l)

Converted(im) ==
    [width |-> im.width, height |-> im.height,
     data |-> [p \in Coords(im.width, im.height) |-> ConvertedPixel(im.data[p])]]

\* mutant: the closure samples the converted image
SamplePixel_Converted(im, x, y) == ConvertedPixel(get_pixel(im, x, y))

\* |x, y| { let px = im.get_pixel(x, y); Rgb::from([px[0], px[1], px[2]]) }
SamplePixel(im, x, y) ==
    LET px == get_pixel(im, x, y) IN Rgb(px[1], px[2], px[3])

\* the closure make_image receives: |_, _| col, or the sampling closure
ColorAt(c, x, y) == IF c.kind = "const" THEN c.rgb ELSE SamplePixel(c.im, x, y)

(***************************************************************************)
(* make_image: vertices, initial cursor, midpoint                          *)
(***************************************************************************)
Positions(width, height) ==
    << <<width \div 10, height - (height \div 10)>>,
       <<width - (width \div 10), height - (height \div 10)>>,
       <<width \div 2, height \div 10>> >>

\* mutant: the cursor starts at the centre row
InitialLast_Centre(width, height) ==
    {[panic |-> FALSE, val |-> <<width \div 2, height \div 2>>]}

\* let mut last = [width / 2, height / 2 - 1]
InitialLast(width, height) ==
    {[panic |-> o.panic, val |-> <<width \div 2, o.val>>] : o \in SubOutcomes(height \div 2, 1)}

\* mutant: the division binds to the vertex alone
Midpoint_Unparenthesised(p, q) == <<p[1] + q[1] \div 2, p[2] + q[2] \div 2>>

\* [(last[0] + positions[n][0]) / 2, (last[1] + positions[n][1]) / 2]
Midpoint(p, q) == <<(p[1] + q[1]) \div 2, (p[2] + q[2]) \div 2>>

\* mutant: the exclusive range 1..dots
InRange_Exclusive(n, dots) == 1 <= n /\ n < dots

\* n is in 1..=dots
InRange(n, dots) == 1 <= n /\ n <= dots

(***************************************************************************)
(* Inputs                                                                  *)
(***************************************************************************)
\* --color values of the runs of Spec
RunColors ==
    { None, Some(<<>>), Some(<<"#", "f", "0", "0">>),
      Some(<<"0", "0", "f", "f", "0", "0">>), Some(<<"z", "z", "z">>),
      Some(<<"0", "U+00E9", "0", "0", "0">>) }

\* a decoded RGBA source image: a fixed pattern of distinct channels
PatternPixel(id, p) ==
    <<(37 * p[1] + 90 * id) % 256, (53 * p[2] + 20 * id) % 256,
      (11 * (p[1] + p[2]) + 128) % 256, 255>>

SourceImage(id, w, h) ==
    [width |-> w, height |-> h, data |-> [p \in Coords(w, h) |-> PatternPixel(id, p)]]

\* what image::open can yield: a decoded image, or an error (None)
SourceImages ==
    { Some(SourceImage(1, MaxDim, MaxDim - 1)), Some(SourceImage(2, MaxDim - 1, MaxDim)),
      Some(SourceImage(3, 2, 2)), None }

Generate(w, h, d, c) == [kind |-> "Generate", width |-> w, height |-> h, dots |-> d, color |-> c]
Image(im, d) == [kind |-> "Image", image |-> im, dots |-> d]

Commands ==
    { Generate(w, h, d, c) : w \in 1..MaxDim, h \in 1..MaxDim, d \in 0..MaxDots, c \in RunColors }
    \cup { Image(im, d) : im \in SourceImages, d \in 0..MaxDots }

\* characters of the --color values of SpecColor
Alphabet == {"0", "f", "A", "z", "+", "-", "U+00E9"}

\* an optional '#', then the body
WithHash(hash, body) == IF hash THEN <<"#">> \o body ELSE body

NoImage == [width |-> 0, height |-> 0, data |-> <<>>]

(***************************************************************************)
(* The program                                                             *)
(***************************************************************************)
Start(c) ==
    /\ cmd = c
    /\ pc = "main"
    /\ col = <<>>
    /\ color = [kind |-> "unset"]
    /\ img = NoImage
    /\ positions = <<>>
    /\ last = <<>>
    /\ corner = 0
    /\ i = 0
    /\ writes = <<>>
    /\ choices = <<>>

Init == \E c \in Commands : Start(c)

\* --color absent, or an optional '#' and up to MaxBody characters of Alphabet
InitColor ==
    \/ Start(Generate(MaxDim, MaxDim, 0, None))
    \/ \E n \in 0..MaxBody : \E body \in [1..n -> Alphabet] : \E hash \in BOOLEAN :
          Start(Generate(MaxDim, MaxDim, 0, Some(WithHash(hash, body))))

\* main, Generate arm: let col = get_color(color)
CallGetColor ==
    /\ pc = "main"
    /\ cmd.kind = "Generate"
    /\ LET r == get_color(cmd.color)
       IN  IF r.panic
           THEN pc' = "panic_get_color" /\ col' = col
           ELSE pc' = "generate" /\ col' = r.rgb
    /\ UNCHANGED <<cmd, color, img, positions, last, corner, i, writes, choices>>

\* main, Generate arm: make_image(RgbImage::new(width, height), dots, |_, _| col)
NewImage ==
    /\ pc = "generate"
    /\ img' = RgbImage_new(cmd.width, cmd.height)
    /\ color' = [kind |-> "const", rgb |-> col]
    /\ pc' = "make_image"
    /\ UNCHANGED <<cmd, col, positions, last, corner, i, writes, choices>>

\* main, Image arm: image::open, then make_image(converted, dots, sampling closure)
OpenImage ==
    /\ pc = "main"
    /\ cmd.kind = "Image"
    /\ IF cmd.image.some
       THEN /\ img' = Converted(cmd.image.val)
            /\ color' = [kind |-> "sample", im |-> cmd.image.val]
            /\ pc' = "make_image"
       ELSE /\ pc' = "exit"
            /\ UNCHANGED <<img, color>>
    /\ UNCHANGED <<cmd, col, positions, last, corner, i, writes, choices>>

\* make_image up to "Placing corners"
Setup ==
    /\ pc = "make_image"
    /\ positions' = Positions(img.width, img.height)
    /\ \E o \in InitialLast(img.width, img.height) :
          IF o.panic
          THEN pc' = "panic_make_image" /\ UNCHANGED <<last, corner>>
          ELSE pc' = "corners" /\ last' = o.val /\ corner' = 1
    /\ UNCHANGED <<cmd, col, color, img, i, writes, choices>>

\* color(x, y) is evaluated before put_pixel is entered: the sampling closure
\* panics in im.get_pixel on a coordinate outside the source image
ClosurePanics(c, x, y) == c.kind = "sample" /\ ~InBounds(c.im, x, y)

\* img.put_pixel(x, y, color(x, y)) completes
WriteSucceeds(p) == ~ClosurePanics(color, p[1], p[2]) /\ InBounds(img, p[1], p[2])

\* img.put_pixel(x, y, color(x, y)): writes logs each coordinate put_pixel receives
Write(p) ==
    /\ writes' = IF ClosurePanics(color, p[1], p[2]) THEN writes ELSE Append(writes, p)
    /\ IF WriteSucceeds(p)
       THEN img' = put_pixel(img, p[1], p[2], ColorAt(color, p[1], p[2]))
       ELSE img' = img

\* for [x, y] in positions { img.put_pixel(x, y, color(x, y)) }
PlaceCorner ==
    /\ pc = "corners"
    /\ Write(positions[corner])
    /\ IF ~WriteSucceeds(positions[corner])
       THEN pc' = "panic_make_image" /\ UNCHANGED <<corner, i>>
       ELSE IF corner < 3
       THEN pc' = pc /\ corner' = corner + 1 /\ i' = i
       ELSE pc' = "dots" /\ corner' = corner /\ i' = 1
    /\ UNCHANGED <<cmd, col, color, positions, last, choices>>

\* one iteration of for i in 1..=dots
PlaceDot ==
    /\ pc = "dots"
    /\ InRange(i, cmd.dots)
    /\ \E n \in 0..2 :
          /\ choices' = Append(choices, n)
          /\ Write(last)
          /\ IF ~WriteSucceeds(last)
             THEN pc' = "panic_make_image" /\ UNCHANGED <<last, i>>
             ELSE /\ last' = Midpoint(last, positions[n + 1])
                  /\ i' = i + 1
                  /\ pc' = pc
    /\ UNCHANGED <<cmd, col, color, positions, corner>>

\* the loop is exhausted: bar.finish(); img
Finish ==
    /\ pc = "dots"
    /\ ~InRange(i, cmd.dots)
    /\ pc' = "done"
    /\ UNCHANGED <<cmd, col, color, img, positions, last, corner, i, writes, choices>>

Next == CallGetColor \/ NewImage \/ OpenImage \/ Setup \/ PlaceCorner \/ PlaceDot \/ Finish

Spec == Init /\ [][Next]_vars

\* get_color alone, over ColorInputs
SpecColor == InitColor /\ [][CallGetColor]_vars

(***************************************************************************)
(* Properties                                                              *)
(***************************************************************************)
Range(seq) == {seq[k] : k \in DOMAIN seq}

InMakeImage == pc \in {"corners", "dots", "done", "panic_make_image"}

\* the canvas make_image runs on is at least 10 x 10
AtLeastTen == img.width >= 10 /\ img.height >= 10

\* C1: every coordinate make_image passes to a pixel write (the 3 vertices,
\* then each cursor) satisfies 0 <= x < W and 0 <= y < H, for every W, H > 0.
C1_WritesInBounds ==
    \A k \in DOMAIN writes : InBounds(img, writes[k][1], writes[k][2])

\* C2: for every W, H > 0 make_image cannot fail: no panic, and the cursor
\* never leaves the unsigned range.
C2_MakeImageCannotFail ==
    /\ pc # "panic_make_image"
    /\ last # <<>> => (last[1] >= 0 /\ last[2] >= 0)

\* C3: on a canvas large enough that no write fails, make_image runs exactly
\* dots iterations and makes dots + 3 pixel writes: the 3 corners first, then
\* one cursor write per iteration; it neither stops early nor runs on.
C3_ExactlyNIterations ==
    AtLeastTen =>
        /\ pc # "panic_make_image"
        /\ pc \in {"make_image", "corners", "dots"} => ENABLED Next
        /\ pc = "corners" => (Len(writes) = corner - 1 /\ choices = <<>>)
        /\ pc = "dots" =>
              /\ i \in 1..(cmd.dots + 1)
              /\ Len(choices) = i - 1
              /\ Len(writes) = 3 + (i - 1)
        /\ pc = "done" =>
              /\ Len(choices) = cmd.dots
              /\ Len(writes) = cmd.dots + 3
        /\ pc \in {"dots", "done"} =>
              \A k \in 1..3 : writes[k] = positions[k]

C3_Witness ==
    /\ pc = "done"
    /\ AtLeastTen
    /\ cmd.dots >= 3
    /\ Len(writes) = cmd.dots + 3

\* the canvas handed to make_image, from the command alone
GivenCanvas ==
    IF cmd.kind = "Generate"
    THEN [width |-> cmd.width, height |-> cmd.height,
          data |-> [p \in Coords(cmd.width, cmd.height) |-> <<0, 0, 0>>]]
    ELSE Converted(cmd.image.val)

\* C4: when make_image returns, the canvas has the dimensions it was given,
\* every written coordinate (vertex or visited cursor) holds color(x, y) and
\* every other pixel holds its initial value; with dots = 0 the written
\* coordinates are exactly the 3 corners.
C4_FrameOfCanvas ==
    pc = "done" =>
        /\ img.width = GivenCanvas.width
        /\ img.height = GivenCanvas.height
        /\ DOMAIN img.data = Coords(GivenCanvas.width, GivenCanvas.height)
        /\ \A p \in DOMAIN img.data :
              img.data[p] = IF p \in Range(writes)
                            THEN ColorAt(color, p[1], p[2])
                            ELSE GivenCanvas.data[p]
        /\ cmd.dots = 0 =>
              /\ Range(writes) = {positions[1], positions[2], positions[3]}
              /\ Cardinality(Range(writes)) = 3

C4_Witness ==
    /\ pc = "done"
    /\ cmd.dots >= 2
    /\ \E p \in DOMAIN img.data : p \in Range(writes) /\ img.data[p] # GivenCanvas.data[p]
    /\ \E p \in DOMAIN img.data : p \notin Range(writes)

\* value of a hexadecimal digit of Alphabet
HexValue(c) == CASE c = "0" -> 0 [] c = "f" -> 15 [] c = "A" -> 10

IsHex(c) == c \in {"0", "f", "A"}

\* the --color string without one leading '#'
Body == IF cmd.color.val # <<>> /\ cmd.color.val[1] = "#" THEN Tail(cmd.color.val) ELSE cmd.color.val

ValidHexBody == Len(Body) \in {3, 6} /\ \A k \in 1..Len(Body) : IsHex(Body[k])

ExpectedColor ==
    IF Len(Body) = 3
    THEN <<17 * HexValue(Body[1]), 17 * HexValue(Body[2]), 17 * HexValue(Body[3])>>
    ELSE <<16 * HexValue(Body[1]) + HexValue(Body[2]),
           16 * HexValue(Body[3]) + HexValue(Body[4]),
           16 * HexValue(Body[5]) + HexValue(Body[6])>>

\* C5: for a string of exactly 3 or 6 hexadecimal digits, with or without a
\* leading '#', get_color returns the bytes R, G, B read from the digits,
\* each digit of the 3-digit form doubled: "#f00" gives (255,0,0), "00ff00"
\* gives (0,255,0), "fff" gives (255,255,255).
C5_ValidHexParsed ==
    (pc # "main" /\ cmd.color.some) =>
        /\ ValidHexBody => (pc = "generate" /\ col = ExpectedColor)
        /\ cmd.color.val = <<"#", "f", "0", "0">> => col = <<255, 0, 0>>
        /\ cmd.color.val = <<"0", "0", "f", "f", "0", "0">> => col = <<0, 255, 0>>
        /\ cmd.color.val = <<"f", "f", "f">> => col = <<255, 255, 255>>

C5_Witness ==
    /\ pc = "generate"
    /\ cmd.color.some
    /\ cmd.color.val = <<"#", "f", "0", "A">>
    /\ col = <<255, 0, 170>>

\* C6: a string that, after one leading '#' is stripped, has length 3 or 6
\* and holds a character that is not a hexadecimal digit (a sign '+' or '-',
\* a letter such as 'z') makes get_color return white.  Stated for ASCII
\* strings, where length in characters and in bytes agree.
C6_NonHexGivesWhite ==
    (/\ pc # "main"
     /\ cmd.color.some
     /\ Len(Body) \in {3, 6}
     /\ \A k \in 1..Len(Body) : ByteLen(Body[k]) = 1
     /\ \E k \in 1..Len(Body) : ~IsHex(Body[k]))
    => (pc = "generate" /\ col = <<255, 255, 255>>)

\* C7: get_color is total: it returns for every input and never aborts, and
\* it returns white whenever the input is absent or is not a valid 3- or
\* 6-hex-digit colour.
C7_Total ==
    pc # "main" =>
        /\ pc = "generate"
        /\ (~cmd.color.some \/ ~ValidHexBody) => col = <<255, 255, 255>>

\* C8: on a canvas of at least 10 x 10 the cursor, and so every walk pixel,
\* lies in the bounding box of the vertices:
\* W/10 <= x <= W - W/10 and H/10 <= y <= H - H/10.
InBox(p) ==
    /\ img.width \div 10 <= p[1]
    /\ p[1] <= img.width - img.width \div 10
    /\ img.height \div 10 <= p[2]
    /\ p[2] <= img.height - img.height \div 10

C8_CursorInBox ==
    (AtLeastTen /\ InMakeImage) =>
        /\ InBox(last)
        /\ \A k \in DOMAIN writes : InBox(writes[k])

C8_Witness ==
    /\ AtLeastTen
    /\ pc = "done"
    /\ cmd.dots >= 3
    /\ last[1] = img.width \div 10
    /\ \E k \in 4..Len(writes) : writes[k][2] < img.height \div 2 - 1

\* the cursor after the first k vertex choices, from (W/2, H/2 - 1)
RECURSIVE CursorAfter(_)
CursorAfter(k) ==
    IF k = 0 THEN <<img.width \div 2, img.height \div 2 - 1>>
    ELSE LET c == CursorAfter(k - 1)
             v == positions[choices[k] + 1]
         IN  <<(c[1] + v[1]) \div 2, (c[2] + v[2]) \div 2>>

\* C9: each iteration writes at the current cursor and then moves it to the
\* floor midpoint with the chosen vertex: the k-th walk write is at the
\* cursor after k-1 updates (the first at (W/2, H/2 - 1)), the cursor of the
\* last update is not written, and the vertices stay as computed.
C9_WriteBeforeUpdate ==
    (AtLeastTen /\ pc \in {"corners", "dots", "done"}) =>
        /\ positions = << <<img.width \div 10, img.height - img.height \div 10>>,
                          <<img.width - img.width \div 10, img.height - img.height \div 10>>,
                          <<img.width \div 2, img.height \div 10>> >>
        /\ \A k \in 1..Len(choices) :
              /\ choices[k] \in 0..2
              /\ writes[3 + k] = CursorAfter(k - 1)
        /\ last = CursorAfter(Len(choices))
        /\ Len(writes) <= 3 + Len(choices)

C9_Witness ==
    /\ AtLeastTen
    /\ pc = "done"
    /\ cmd.dots >= 3
    /\ writes[4] = <<img.width \div 2, img.height \div 2 - 1>>
    /\ last \notin Range(writes)

\* the first three channels of the source image's pixel at p
SourceRgb(p) ==
    LET px == cmd.image.val.data[p] IN <<px[1], px[2], px[3]>>

\* grayscale, darkened by 50, of the source image's pixel at p
SourceConverted(p) ==
    LET px == cmd.image.val.data[p]
        l  == (2126 * px[1] + 7152 * px[2] + 722 * px[3]) \div 10000
        d  == IF l - 50 < 0 THEN 0 ELSE l - 50
    IN  <<d, d, d>>

ImageRun == cmd.kind = "Image" /\ cmd.image.some /\ pc # "main"

\* C10, as stated: in image-seed mode the colour written at a plotted
\* coordinate is the sample of the converted (grayscale, darkened) image.
C10_SamplesConvertedImage ==
    ImageRun =>
        \A p \in DOMAIN img.data : p \in Range(writes) => img.data[p] = SourceConverted(p)

\* C10, amended: in image-seed mode the canvas starts as the source image
\* converted to grayscale and darkened by 50; the colour written at a
\* plotted coordinate is the sample of the ORIGINAL source image there, so a
\* written pixel holds the original colour and every other pixel the
\* converted one; get_color is not called.
C10_SamplesOriginalImage ==
    ImageRun =>
        /\ col = <<>>
        /\ DOMAIN img.data = Coords(cmd.image.val.width, cmd.image.val.height)
        /\ \A p \in DOMAIN img.data :
              img.data[p] = IF p \in Range(writes) THEN SourceRgb(p) ELSE SourceConverted(p)

C10_Witness ==
    /\ ImageRun
    /\ pc = "done"
    /\ cmd.dots >= 2
    /\ \E p \in DOMAIN img.data :
          p \in Range(writes) /\ img.data[p] = SourceRgb(p) /\ SourceRgb(p) # SourceConverted(p)

=============================================================================
